---- MODULE Spec2Model ----
\* A model of allocator.c: a bump allocator over a caller-supplied pool with an
\* intrusive doubly linked free list, first-fit reuse and coalescing on free.
\*
\* Memory is modelled word by word.  One word stands for sizeof(size_t) bytes,
\* so the header `md` is four words (size, check_free, next, prev) and request
\* sizes are counted in words.  Addresses and sizes are machine words: all
\* arithmetic on them is modulo Word.  The pool is the CAP words starting at
\* Base; Slack further words after the pool are ordinary addressable memory
\* that does not belong to the pool; an access to any other address ends the
\* program (the operation has no successor state).
EXTENDS Integers, Naturals, Sequences, FiniteSets, Bags, TLC

\* ---------------------------------------------------------------- constants
Word == 32          \* size_t / pointer values are 0 .. Word-1
H == 4              \* sizeof(md), in words
CAP == 16           \* pool capacity checked by mymalloc (128 MiB in the source)
Base == 4           \* address handed to allocator_init
NULL == 0
OFF_SIZE == 0       \* offsetof(md, size)
OFF_FREE == 1       \* offsetof(md, check_free)
OFF_NEXT == 2       \* offsetof(md, next)
OFF_PREV == 3       \* offsetof(md, prev)

\* ------------------------------------------------------------------- bounds
MaxSize == 1        \* small request sizes are 0 .. MaxSize
MaxOps == 5         \* calls made after allocator_init
Slack == 4          \* addressable words after the pool

\* Request sizes: the small ones, and those for which sizeof(md) + size wraps
\* around the machine word to -1, 0 and 1.
Wraps == {Word - H - 1, Word - H, Word - H + 1}
Sizes == (0 .. MaxSize) \cup Wraps
Mapped == Base .. (Base + CAP + Slack - 1)
Fill == {0, 1}      \* what the caller's region may hold when handed over

VARIABLES mem, used, free_list, base, live, last, nops

vars == <<mem, used, free_list, base, live, last, nops>>

\* ------------------------------------------------------- machine arithmetic
Add(a, b) == (a + b) % Word
Sub(a, b) == ((a - b) + Word) % Word
Min(a, b) == IF a < b THEN a ELSE b

\* The allocator's own state, as one value threaded through the code.
\* fault is set once the code touches an unmapped address or loops forever.
St == [mem |-> mem, used |-> used, free_list |-> free_list, base |-> base,
       fault |-> FALSE]

Load(s, a) == IF a \in Mapped THEN s.mem[a] ELSE 0
Touch(s, a) == IF a \in Mapped THEN s ELSE [s EXCEPT !.fault = TRUE]
Store(s, a, v) ==
    IF a \in Mapped THEN [s EXCEPT !.mem[a] = v] ELSE [s EXCEPT !.fault = TRUE]

\* Field accessors of md
Size(s, b) == Load(s, Add(b, OFF_SIZE))
CheckFree(s, b) == Load(s, Add(b, OFF_FREE))
NextOf(s, b) == Load(s, Add(b, OFF_NEXT))
PrevOf(s, b) == Load(s, Add(b, OFF_PREV))

\* Sequencing.  Only([x \in {e} |-> body]) is body with x bound to the value
\* of e, computed once: a C statement acting on what the statement before it
\* left behind.
Only(f) == f[CHOOSE x \in DOMAIN f : TRUE]

\* ------------------------------------------------------------ free list
insert_into_free_list(s, block) ==
    Only([s1 \in {Store(s, Add(block, OFF_FREE), 1)} |->
    Only([s2 \in {Store(s1, Add(block, OFF_NEXT), s1.free_list)} |->
    Only([s3 \in {Store(s2, Add(block, OFF_PREV), NULL)} |->
    Only([s4 \in {IF s3.free_list # NULL
         THEN Store(s3, Add(s3.free_list, OFF_PREV), block)
         ELSE s3} |->
    [s4 EXCEPT !.free_list = block]])])])])

remove_from_free_list(s, block) ==
    Only([t \in {Touch(Touch(s, Add(block, OFF_PREV)), Add(block, OFF_NEXT))} |->
    Only([s1 \in {IF PrevOf(t, block) # NULL
         THEN Store(t, Add(PrevOf(t, block), OFF_NEXT), NextOf(t, block))
         ELSE [t EXCEPT !.free_list = NextOf(t, block)]} |->
    IF NextOf(s1, block) # NULL
    THEN Store(s1, Add(NextOf(s1, block), OFF_PREV), PrevOf(s1, block))
    ELSE s1])])

\* ------------------------------------------------------------- coalescing
\* merge_blocks, first half: absorb the physical successor if it is free.
merge_next(s, block) ==
    Only([t0 \in {Touch(s, Add(block, OFF_SIZE))} |->
    LET next_block == Add(block, Add(H, Size(t0, block)))
    IN  IF next_block < Add(t0.base, t0.used)
        THEN Only([t1 \in {Touch(t0, Add(next_block, OFF_FREE))} |->
             IF CheckFree(t1, next_block) # 0
             THEN Only([r \in {remove_from_free_list(t1, next_block)} |->
                  Only([r1 \in {Touch(r, Add(next_block, OFF_SIZE))} |->
                  Store(r1, Add(block, OFF_SIZE),
                        Add(Size(r1, block), Add(H, Size(r1, next_block))))])])
             ELSE t1])
        ELSE t0])

\* merge_blocks, second half: absorb this block into block->prev if that is
\* set and free.
merge_prev(s, block) ==
    Only([t2 \in {Touch(s, Add(block, OFF_PREV))} |->
    LET prev_block == PrevOf(t2, block)
    IN  IF prev_block # NULL
        THEN Only([t3 \in {Touch(t2, Add(prev_block, OFF_FREE))} |->
             IF CheckFree(t3, prev_block) # 0
             THEN Only([r \in {remove_from_free_list(t3, prev_block)} |->
                  Only([r1 \in {Touch(Touch(r, Add(prev_block, OFF_SIZE)),
                             Add(block, OFF_SIZE))} |->
                  Store(r1, Add(prev_block, OFF_SIZE),
                        Add(Size(r1, prev_block), Add(H, Size(r1, block))))])])
             ELSE t3])
        ELSE t2])

merge_blocks(s, block) ==
    Only([s1 \in {merge_next(s, block)} |-> merge_prev(s1, block)])

\* ----------------------------------------------------------------- malloc
\* The first-fit scan of the while loop: the first block in list order whose
\* size is at least the request, NULL when the list ends first.  A list that
\* does not end within fuel steps is cyclic and the loop never returns.
RECURSIVE scan(_, _, _, _)
scan(s, current, size, fuel) ==
    IF current = NULL THEN [st |-> s, blk |-> NULL]
    ELSE IF fuel = 0 THEN [st |-> [s EXCEPT !.fault = TRUE], blk |-> NULL]
    ELSE IF Add(current, OFF_SIZE) \notin Mapped \/ Add(current, OFF_NEXT) \notin Mapped
         THEN [st |-> [s EXCEPT !.fault = TRUE], blk |-> NULL]
    ELSE IF Size(s, current) >= size THEN [st |-> s, blk |-> current]
    ELSE Only([nxt \in {NextOf(s, current)} |-> scan(s, nxt, size, fuel - 1)])

\* The bump path of mymalloc (no free block fits).
\* Variant: the header is written before the capacity check.
mymalloc_bump_writeFirst(s, size) ==
    Only([s1 \in {Store(s, Add(Add(s.base, s.used), OFF_SIZE), size)} |->
    Only([s2 \in {Store(s1, Add(Add(s.base, s.used), OFF_FREE), 0)} |->
    IF Add(s.used, Add(H, size)) > CAP
    THEN [st |-> s2, ret |-> NULL]
    ELSE [st |-> [s2 EXCEPT !.used = Add(s2.used, Add(H, size))],
          ret |-> Add(Add(s.base, s.used), H)]])])

mymalloc_bump(s, size) ==
    LET total == Add(H, size)
        metadata == Add(s.base, s.used)
    IN  IF Add(s.used, total) > CAP
        THEN [st |-> s, ret |-> NULL]
        ELSE Only([s1 \in {Store(s, Add(metadata, OFF_SIZE), size)} |->
             Only([s2 \in {Store(s1, Add(metadata, OFF_FREE), 0)} |->
             [st |-> [s2 EXCEPT !.used = Add(s2.used, total)],
              ret |-> Add(metadata, H)]])])

mymalloc(s, size) ==
    Only([f \in {scan(s, s.free_list, size, CAP + Slack)} |->
    IF f.st.fault THEN [st |-> f.st, ret |-> NULL]
    ELSE IF f.blk # NULL
    THEN Only([r \in {remove_from_free_list(s, f.blk)} |->
         [st |-> Store(r, Add(f.blk, OFF_FREE), 0), ret |-> Add(f.blk, H)]])
    ELSE mymalloc_bump(s, size)])

\* ------------------------------------------------------------------- free
myfree(s, ptr) ==
    IF ptr = NULL THEN s
    ELSE Only([s1 \in {insert_into_free_list(s, Sub(ptr, H))} |->
         merge_blocks(s1, Sub(ptr, H))])

\* ---------------------------------------------------------------- realloc
\* memcpy(dst, src, n), one word at a time.  The order of the copy is not
\* fixed by the library (overlapping regions are undefined): up copies
\* ascending, otherwise descending.
RECURSIVE memcpy(_, _, _, _, _, _)
memcpy(s, dst, src, n, up, i) ==
    IF i = n \/ s.fault THEN s
    ELSE LET k == IF up THEN i ELSE n - 1 - i
         IN  Only([t \in {Touch(s, Add(src, k))} |->
             Only([s1 \in {Store(t, Add(dst, k), Load(t, Add(src, k)))} |->
             memcpy(s1, dst, src, n, up, i + 1)])])

\* The tail of myrealloc: allocate, copy, free the old block.
\* Variant: the old block is freed whether or not the allocation succeeded.
realloc_move_freeAlways(s, ptr, size, old_size, up) ==
    Only([m \in {mymalloc(s, size)} |->
    IF m.ret # NULL
    THEN Only([s1 \in {memcpy(m.st, m.ret, ptr, Min(old_size, size), up, 0)} |->
         [st |-> myfree(s1, ptr), ret |-> m.ret]])
    ELSE [st |-> myfree(m.st, ptr), ret |-> m.ret]])

realloc_move(s, ptr, size, old_size, up) ==
    Only([m \in {mymalloc(s, size)} |->
    IF m.ret # NULL
    THEN Only([s1 \in {memcpy(m.st, m.ret, ptr, Min(old_size, size), up, 0)} |->
         [st |-> myfree(s1, ptr), ret |-> m.ret]])
    ELSE m])

\* The in-place resize of the tail block.
realloc_tail(s, ptr, size, old_size) ==
    Only([s1 \in {[s EXCEPT !.used = IF size > old_size
                             THEN Add(s.used, Sub(size, old_size))
                             ELSE Sub(s.used, Sub(old_size, size))]} |->
    [st |-> Store(s1, Add(Sub(ptr, H), OFF_SIZE), size), ret |-> ptr]])

myrealloc(s, ptr, size, up) ==
    IF size = 0 THEN [st |-> myfree(s, ptr), ret |-> NULL]
    ELSE IF ptr = NULL THEN mymalloc(s, size)
    ELSE Only([t \in {Touch(s, Add(Sub(ptr, H), OFF_SIZE))} |->
         LET old_size == Size(t, Sub(ptr, H))
             end == Add(t.base, t.used)
         IN  IF Add(ptr, old_size) = end
             THEN realloc_tail(t, ptr, size, old_size)
             ELSE realloc_move(t, ptr, size, old_size, up)])

allocator_init(s, newbase) ==
    [s EXCEPT !.base = newbase, !.used = 0, !.free_list = NULL]

\* Variant: the free list survives the reset.
allocator_reset_keepList(s) == [s EXCEPT !.used = 0]

allocator_reset(s) ==
    [s EXCEPT !.used = 0, !.free_list = NULL]

\* ------------------------------------------------------------ the program
\* live is the caller's view: the bag of pointers it was handed and has not
\* freed, moved with realloc or lost to a reset (a bag, since nothing in the
\* contract keeps the caller from holding a pointer it was handed twice).
\* last records the last call.
Gain(b, p) == b (+) SetToBag({p})
Lose(b, p) == IF p = NULL THEN b ELSE b (-) SetToBag({p})

Call(o, p, n, r) == [op |-> o, ptr |-> p, size |-> n, ret |-> r]

Commit(s) ==
    /\ ~s.fault
    /\ mem' = s.mem
    /\ used' = s.used
    /\ free_list' = s.free_list
    /\ base' = s.base
    /\ nops' = nops + 1

Init ==
    /\ \E fill \in Fill : mem = [a \in Mapped |-> fill]
    /\ used = 0
    /\ free_list = NULL
    /\ base = Base
    /\ live = EmptyBag
    /\ last = Call("init", NULL, 0, NULL)
    /\ nops = 0

AllocatorInit ==
    /\ nops < MaxOps
    /\ \E s \in {allocator_init(St, Base)} : Commit(s)
    /\ live' = EmptyBag
    /\ last' = Call("init", NULL, 0, NULL)

AllocatorReset ==
    /\ nops < MaxOps
    /\ \E s \in {allocator_reset(St)} : Commit(s)
    /\ live' = EmptyBag
    /\ last' = Call("reset", NULL, 0, NULL)

Malloc ==
    /\ nops < MaxOps
    /\ \E size \in Sizes :
         \E m \in {mymalloc(St, size)} :
             /\ Commit(m.st)
             /\ live' = IF m.ret # NULL THEN Gain(live, m.ret) ELSE live
             /\ last' = Call("malloc", NULL, size, m.ret)

Free ==
    /\ nops < MaxOps
    /\ \E ptr \in BagToSet(live) \cup {NULL} :
       \E s \in {myfree(St, ptr)} :
         /\ Commit(s)
         /\ live' = Lose(live, ptr)
         /\ last' = Call("free", ptr, 0, NULL)

\* The copy order matters only when realloc gets as far as memcpy.
CopyOrders(ptr, size) == IF ptr = NULL \/ size = 0 THEN {TRUE} ELSE BOOLEAN

Realloc ==
    /\ nops < MaxOps
    /\ \E ptr \in BagToSet(live) \cup {NULL}, size \in Sizes :
       \E up \in CopyOrders(ptr, size) :
         \E m \in {myrealloc(St, ptr, size, up)} :
             /\ Commit(m.st)
             /\ live' = IF size = 0 THEN Lose(live, ptr)
                        ELSE IF m.ret = NULL THEN live
                        ELSE Gain(Lose(live, ptr), m.ret)
             /\ last' = Call("realloc", ptr, size, m.ret)

Next == AllocatorInit \/ AllocatorReset \/ Malloc \/ Free \/ Realloc

Spec == Init /\ [][Next]_vars

\* ------------------------------------------------------- views of the state
LiveSet == BagToSet(live)
HdrOf(p) == Sub(p, H)
Payload(p) == {p + i : i \in 0 .. (Size(St, HdrOf(p)) - 1)}
Pool == Base .. (Base + CAP - 1)

\* The block headers met when stepping from the pool base by H + size, in
\* unbounded integers, while the offset is below used; LayoutEnd is the offset
\* at which the stepping stops (-1 if it never gets there).
RECURSIVE LayoutFrom(_, _)
LayoutFrom(off, fuel) ==
    IF off >= used \/ fuel = 0 THEN {}
    ELSE {base + off} \cup LayoutFrom(off + H + Load(St, base + off), fuel - 1)

RECURSIVE LayoutEndFrom(_, _)
LayoutEndFrom(off, fuel) ==
    IF off >= used THEN off
    ELSE IF fuel = 0 THEN -1
    ELSE LayoutEndFrom(off + H + Load(St, base + off), fuel - 1)

Layout == LayoutFrom(0, Word)
LayoutEnd == LayoutEndFrom(0, Word)

\* The blocks reachable from free_list along next links.
RECURSIVE ListFrom(_, _, _)
ListFrom(s, b, seen) ==
    IF b = NULL \/ b \in seen \/ b \notin Mapped THEN seen
    ELSE ListFrom(s, NextOf(s, b), seen \cup {b})

ListOf(s) == ListFrom(s, s.free_list, {})
FreeListSet == ListOf(St)

\* The free list in list order: the blocks met from free_list along next
\* links, cut off after CAP + Slack blocks.
RECURSIVE ListSeqFrom(_, _, _)
ListSeqFrom(s, b, fuel) ==
    IF b = NULL \/ b \notin Mapped \/ fuel = 0 THEN << >>
    ELSE << b >> \o ListSeqFrom(s, NextOf(s, b), fuel - 1)

ListSeq(s) == ListSeqFrom(s, s.free_list, CAP + Slack)
FreeListSeq == ListSeq(St)

\* A sequence without its k-th element.
Without(q, k) == [i \in 1 .. (Len(q) - 1) |-> IF i < k THEN q[i] ELSE q[i + 1]]

\* ------------------------------------------------------------------ claims
\* C1: the payload regions of any two live blocks are disjoint, and no
\* pointer is held live twice.
C1_LiveDisjoint ==
    /\ \A p \in LiveSet : CopiesIn(p, live) = 1
    /\ \A p, q \in LiveSet : p # q => Payload(p) \cap Payload(q) = {}

\* C2: a successful allocate(n) returns a block whose header and payload, and
\* the n bytes asked for, lie inside the pool.
C2_AllocInsidePool ==
    (last.op = "malloc" /\ last.ret # NULL) =>
        /\ HdrOf(last.ret) \in Pool
        /\ last.ret + last.size <= Base + CAP
        /\ last.ret + Size(St, HdrOf(last.ret)) <= Base + CAP

\* C3: stepping from offset 0 by H + size reaches exactly used.
C3_Tiled == LayoutEnd = used

\* C4: a block of the layout is in the free list iff its flag is set.
C4_ListIffFlag ==
    \A b \in Layout : (b \in FreeListSet) <=> (CheckFree(St, b) # 0)

\* C5: two physically adjacent live blocks A (size a) and B (size b), freed in
\* either order, leave one free block at A of size a + H + b, and an
\* allocate(a + H + b) then returns A without moving used.
Coalesced(freed, A, B, want) ==
    \A s \in {freed} :
        /\ HdrOf(A) \in ListOf(s)
        /\ HdrOf(B) \notin ListOf(s)
        /\ CheckFree(s, HdrOf(A)) # 0
        /\ Size(s, HdrOf(A)) = want
        /\ \A m \in {mymalloc(s, want)} : m.ret = A /\ m.st.used = s.used

C5_CoalesceEitherOrder ==
    \A A, B \in LiveSet :
        (C1_LiveDisjoint /\ HdrOf(B) = A + Size(St, HdrOf(A))) =>
            LET want == Size(St, HdrOf(A)) + H + Size(St, HdrOf(B))
            IN  /\ Coalesced(myfree(myfree(St, B), A), A, B, want)
                /\ Coalesced(myfree(myfree(St, A), B), A, B, want)

\* C6: reallocate(null, n) is allocate(n), for every n including 0: the same
\* return value and the same allocator state.
C6_ReallocNullIsMalloc ==
    \A n \in Sizes : myrealloc(St, NULL, n, TRUE) = mymalloc(St, n)

\* C7: the high-water mark never exceeds the pool capacity.
C7_UsedWithinCap == used <= CAP

\* C8: an allocate that returns the failure indicator changes nothing, and it
\* fails only when no free block fits and the bump does not fit the pool.
C8_FailedAllocUnchanged ==
    [][(last'.op = "malloc" /\ last'.ret = NULL) =>
          /\ UNCHANGED <<mem, used, free_list, base, live>>
          /\ \A b \in FreeListSet : Size(St, b) < last'.size
          /\ used + H + last'.size > CAP]_vars

C8_Witness ==
    /\ last.op = "malloc" /\ last.ret = NULL
    /\ free_list # NULL /\ used > 0

\* C9: free(p) followed by allocate(n), n no larger than the size of p's
\* block, returns p again and leaves used alone.
C9_FreeThenAllocReuses ==
    \A p \in LiveSet :
        \A n \in 0 .. Size(St, HdrOf(p)) :
            \A s \in {myfree(St, p)} :
                \A m \in {mymalloc(s, n)} :
                    (~s.fault /\ ~m.st.fault) => (m.ret = p /\ m.st.used = used)

\* C10: a reallocate of a non-tail block whose fresh allocation fails returns
\* failure and changes nothing: memory (so the block's header and payload),
\* used, the free list and the caller's pointers are as before.
C10_FailedReallocIntact ==
    [][(/\ last'.op = "realloc" /\ last'.ptr # NULL /\ last'.size # 0
        /\ Add(last'.ptr, Size(St, HdrOf(last'.ptr))) # Add(base, used)
        /\ last'.ret = NULL) =>
          /\ UNCHANGED <<mem, used, free_list, base, live>>
          /\ last'.ptr \in LiveSet]_vars

C10_Witness ==
    /\ last.op = "realloc" /\ last.ptr # NULL /\ last.size # 0
    /\ last.ret = NULL
    /\ last.ptr \in LiveSet
    /\ CheckFree(St, HdrOf(last.ptr)) = 0
    /\ HdrOf(last.ptr) \notin FreeListSet

\* C11: a successful reallocate(p, n2), n2 > 0, of a live block of size n1
\* leaves at the returned pointer the first min(n1, n2) payload words that
\* were at p before the call.
C11_ContentPreserved ==
    [][(/\ last'.op = "realloc" /\ last'.ptr # NULL /\ last'.size # 0
        /\ last'.ret # NULL) =>
          \A i \in 0 .. (Min(Size(St, HdrOf(last'.ptr)), last'.size) - 1) :
              (Add(last'.ptr, i) \in Mapped /\ Add(last'.ret, i) \in Mapped) =>
                  mem'[Add(last'.ret, i)] = mem[Add(last'.ptr, i)]]_vars

\* C12: reset in any reachable state leaves used = 0 and an empty free list,
\* so the next allocate(n), n + H <= CAP, bump-allocates at base + H, sets
\* used to H + n and takes nothing from the free list, whatever was allocated
\* or free before.
C12_ResetInvalidates ==
    /\ (last.op = "reset") => (used = 0 /\ free_list = NULL)
    /\ \A s \in {allocator_reset(St)} :
           /\ s.used = 0 /\ s.free_list = NULL
           /\ \A n \in 0 .. (CAP - H) :
                  \A m \in {mymalloc(s, n)} :
                      /\ ~m.st.fault
                      /\ m.ret = Add(base, H)
                      /\ m.st.used = H + n
                      /\ m.st.free_list = NULL
                      /\ Size(m.st, base) = n /\ CheckFree(m.st, base) = 0

\* A reset has just discarded a state in which the one block of the pool had
\* been freed: memory, all ones at the start, still holds that block's header
\* (size 0, flag set, both links null) and nothing else.
C12_Witness ==
    /\ last.op = "reset" /\ used = 0 /\ free_list = NULL
    /\ mem = [a \in Mapped |->
                 IF a \in {base + OFF_SIZE, base + OFF_NEXT, base + OFF_PREV}
                 THEN 0 ELSE 1]

\* C13: an allocate(size) that finds no fitting free block and for which
\* used + H + size, in unbounded integers, exceeds CAP fails and changes
\* nothing; and an in-place tail grow adds size - old_size to used without
\* wrapping.
C13_NoWrap ==
    [][/\ (/\ last'.op = "malloc"
           /\ \A b \in FreeListSet : Size(St, b) < last'.size
           /\ used + H + last'.size > CAP) =>
              /\ last'.ret = NULL
              /\ UNCHANGED <<mem, used, free_list, base, live>>
       /\ (/\ last'.op = "realloc" /\ last'.ptr # NULL
           /\ Add(last'.ptr, Size(St, HdrOf(last'.ptr))) = Add(base, used)
           /\ last'.size > Size(St, HdrOf(last'.ptr))) =>
              used' = used + last'.size - Size(St, HdrOf(last'.ptr))]_vars

\* C14: allocate(size) takes the first block in free-list order whose size is
\* at least size: it returns that block's payload, the block leaves the list
\* with its flag cleared and its size as it was, the other free blocks keep
\* their order, and used does not move.  Only when no free block fits does
\* the call bump-allocate (used grows by H + size, as line 95 computes it)
\* or fail, and then the free list is as it was.
Fits(size) == {i \in DOMAIN FreeListSeq : Size(St, FreeListSeq[i]) >= size}

FirstFit(size) == CHOOSE k \in Fits(size) : \A i \in Fits(size) : k <= i

C14_FirstFitNoSplit ==
    [][(last'.op = "malloc") =>
          IF Fits(last'.size) # {}
          THEN LET k == FirstFit(last'.size)
                   b == FreeListSeq[k]
               IN  /\ last'.ret = Add(b, H)
                   /\ FreeListSeq' = Without(FreeListSeq, k)
                   /\ mem'[Add(b, OFF_FREE)] = 0
                   /\ mem'[Add(b, OFF_SIZE)] = mem[Add(b, OFF_SIZE)]
                   /\ used' = used
          ELSE /\ FreeListSeq' = FreeListSeq
               /\ \/ last'.ret = NULL /\ used' = used
                  \/ /\ last'.ret = Add(Add(base, used), H)
                     /\ used' = Add(used, Add(H, last'.size))]_vars

\* C15: free(p) on a block of size s whose physical successor, the block at
\* header(p) + H + s, starts below base + used and is free with size t takes
\* the successor off the free list and leaves p's block free with size
\* s + H + t, the list as long as it was.  Otherwise (successor allocated, or
\* p's block the last one) the block is pushed on the list with size s and
\* nothing else changes: used, and all memory but the block's flag and links
\* and the old head's back link.
C15_ForwardMerge ==
    [][(last'.op = "free" /\ last'.ptr # NULL) =>
          LET b == HdrOf(last'.ptr)
              s == Size(St, b)
              nb == b + H + s
          IN  IF nb < base + used /\ CheckFree(St, nb) # 0
              THEN /\ nb \notin ListOf([St EXCEPT !.mem = mem', !.free_list = free_list'])
                   /\ mem'[Add(b, OFF_FREE)] # 0
                   /\ mem'[Add(b, OFF_SIZE)] = s + H + Size(St, nb)
                   /\ Len(FreeListSeq') = Len(FreeListSeq)
                   /\ used' = used
              ELSE /\ FreeListSeq' = << b >> \o FreeListSeq
                   /\ used' = used
                   /\ \A a \in Mapped :
                          mem'[a] # mem[a] =>
                              a \in {Add(b, OFF_FREE), Add(b, OFF_NEXT), Add(b, OFF_PREV),
                                     Add(free_list, OFF_PREV)}]_vars

\* C16: reallocate(p, new_size), new_size > 0, on a live block whose payload
\* ends at base + used returns p, sets the block's size to new_size and used
\* to p's payload offset plus new_size, and changes nothing else in memory
\* and not the free list; the block is the tail block again afterwards.
C16_TailResizeInPlace ==
    [][(/\ last'.op = "realloc" /\ last'.ptr # NULL /\ last'.size # 0
        /\ last'.ptr + Size(St, HdrOf(last'.ptr)) = base + used) =>
          /\ last'.ret = last'.ptr
          /\ mem'[Add(HdrOf(last'.ptr), OFF_SIZE)] = last'.size
          /\ used' = (last'.ptr - base) + last'.size
          /\ \A a \in Mapped \ {Add(HdrOf(last'.ptr), OFF_SIZE)} : mem'[a] = mem[a]
          /\ free_list' = free_list
          /\ last'.ptr + last'.size = base' + used']_vars

\* C17: a successful reallocate(p, new_size), new_size > 0, on a live block
\* that is not the tail block (by the test of line 126) returns a pointer other than p, the one
\* allocate(new_size) would return, and leaves the old block free and in the
\* free list, grown by its physical successor if that was free; whether
\* new_size is below or above the old size.
C17_InteriorReallocMoves ==
    [][(/\ last'.op = "realloc" /\ last'.ptr # NULL /\ last'.size # 0
        /\ Add(last'.ptr, Size(St, HdrOf(last'.ptr))) # Add(base, used)
        /\ last'.ret # NULL) =>
          LET b == HdrOf(last'.ptr)
              s == Size(St, b)
              nb == b + H + s
          IN  \A m \in {mymalloc(St, last'.size)} :
                  /\ last'.ret # last'.ptr
                  /\ last'.ret = m.ret
                  /\ used' = m.st.used
                  /\ b \in ListOf([St EXCEPT !.mem = mem', !.free_list = free_list'])
                  /\ mem'[Add(b, OFF_FREE)] # 0
                  /\ mem'[Add(b, OFF_SIZE)] =
                         IF nb < base + m.st.used /\ CheckFree(m.st, nb) # 0
                         THEN s + H + Size(m.st, nb) ELSE s]_vars

\* C18: in every free(p) the freed block's prev link is null when the
\* backward check of merge_blocks runs, so that branch is not taken; after
\* the call the freed block is the head of the free list, flagged free, at
\* its own header address.
C18_BackwardMergeNeverTaken ==
    [][(/\ last'.ptr # NULL
        /\ \/ last'.op = "free"
           \/ last'.op = "realloc" /\ last'.size = 0) =>
          LET b == HdrOf(last'.ptr)
          IN  /\ \A s \in {merge_next(insert_into_free_list(St, b), b)} :
                     PrevOf(s, b) = NULL
              /\ free_list' = b
              /\ mem'[Add(b, OFF_FREE)] # 0
              /\ mem'[Add(b, OFF_PREV)] = NULL]_vars

\* C19: the free list is a well-formed finite doubly linked list: following
\* next from the head reaches null, the head's prev is null, each successor's
\* prev names its predecessor, no block is listed twice, and every listed
\* header lies at an offset in [0, used).
C19_ListWellFormed ==
    LET L == FreeListSeq
    IN  /\ \/ free_list = NULL
           \/ L # << >> /\ NextOf(St, L[Len(L)]) = NULL
        /\ L # << >> => PrevOf(St, L[1]) = NULL
        /\ \A i \in 1 .. (Len(L) - 1) : PrevOf(St, L[i + 1]) = L[i]
        /\ \A i, j \in DOMAIN L : i # j => L[i] # L[j]
        /\ \A i \in DOMAIN L : base <= L[i] /\ L[i] < base + used

\* C20: free(p), p null or not, tail block or not, leaves used as it was;
\* used goes down only in an in-place tail shrink by reallocate or in a reset
\* (or a fresh allocator_init); and with no live block left, an allocate(b)
\* that no free block fits still grows used by H + b.
C20_FreeKeepsUsed ==
    [][/\ (last'.op = "free") => (used' = used)
       /\ (used' < used) =>
              \/ last'.op \in {"reset", "init"}
              \/ /\ last'.op = "realloc" /\ last'.ptr # NULL /\ last'.size # 0
                 /\ Add(last'.ptr, Size(St, HdrOf(last'.ptr))) = Add(base, used)
                 /\ last'.size < Size(St, HdrOf(last'.ptr))
                 /\ last'.ret = last'.ptr
       /\ (/\ last'.op = "malloc" /\ last'.ret # NULL /\ live = EmptyBag
           /\ \A b \in FreeListSet : Size(St, b) < last'.size) =>
              used' = used + H + last'.size]_vars

TypeOK ==
    /\ mem \in [Mapped -> 0 .. (Word - 1)]
    /\ used \in 0 .. (Word - 1)
    /\ free_list \in 0 .. (Word - 1)
    /\ BagToSet(live) \subseteq 0 .. (Word - 1)
    /\ base = Base
====
